---- MODULE Spec2Model ----
(***************************************************************************)
(* A model of two fragments of hardhat-zksync:                             *)
(*                                                                         *)
(*  - writeLibrariesToFile / getOrCreateLibraries (constants.ts 187-212):  *)
(*    the read-merge-write of the missing-libraries JSON file under a      *)
(*    proper-lockfile lock, run by several calls, each step of a call      *)
(*    (one file-system operation) being one action;                        *)
(*  - getBalanceChanges / getTxFees (part_000 79-120): the balance deltas  *)
(*    of a mined transaction.                                              *)
(***************************************************************************)
EXTENDS Integers, Sequences, FiniteSets, TLC

(* ------------------------------ bounds --------------------------------- *)

\* number of writeLibrariesToFile calls
NumCalls == 2

\* number of distinct library records
MaxRec == 2

\* longest `libraries` argument
MaxLibs == 2

\* longest array the file holds initially
MaxExisting == 1

(* --------------------------- program constants -------------------------- *)

\* lockfile.lock(filePath, { retries: { retries: 10, ... } })
Retries == 10

Call == 1 .. NumCalls

Record == 1 .. MaxRec

SeqsUpTo(S, n) == UNION {[1 .. k -> S] : k \in 0 .. n}

(* ------------------------- the file's content --------------------------- *)
(* kind: "absent" (no file), "empty" (a zero-length file, as left by an    *)
(* open with flag 'w'), "invalid" (text JSON.parse rejects), "array",      *)
(* "string", "number", "object", "null" (the JSON value the text parses    *)
(* to). items: the elements of an array, the characters of a string.       *)

Absent == [kind |-> "absent", items |-> <<>>]

EmptyFile == [kind |-> "empty", items |-> <<>>]

InvalidText == [kind |-> "invalid", items |-> <<>>]

Arr(s) == [kind |-> "array", items |-> s]

\* the characters of the JSON string "ab", as code points
StringAB == [kind |-> "string", items |-> <<97, 98>>]

NumberJson == [kind |-> "number", items |-> <<>>]

ObjectJson == [kind |-> "object", items |-> <<>>]

NullJson == [kind |-> "null", items |-> <<>>]

CorruptFiles == {EmptyFile, InvalidText, StringAB, NumberJson, ObjectJson, NullJson}

InitialFiles == {Absent} \cup {Arr(s) : s \in SeqsUpTo(Record, MaxExisting)} \cup CorruptFiles

\* The length in bytes of the text JSON.stringify(value, null, 4) gives, up to
\* what matters here: its order. '[]' has 2 bytes, every element adds a line.
ByteLen(f) ==
    CASE f.kind \in {"absent", "empty"} -> 0
      [] f.kind \in {"invalid", "number"} -> 1
      [] f.kind = "object" -> 2
      [] f.kind = "null" -> 4
      [] f.kind = "string" -> 2 + Len(f.items)
      [] f.kind = "array" -> 2 + 100 * Len(f.items)

\* fs.write of `new` at offset 0 of a descriptor opened with flag 'w': the text
\* replaces the file's first bytes. What another descriptor wrote past them
\* stays, and the mixture does not parse.
WriteAt0(cur, new) == IF ByteLen(new) >= ByteLen(cur) THEN new ELSE InvalidText

\* fse.readJSON: JSON.parse of the file's text throws on a missing, empty or
\* malformed file and returns the value otherwise, array or not.
readJSONThrows(f) == f.kind \in {"absent", "empty", "invalid"}

\* [...existingLibraries, ...libraries]: the spread iterates arrays and strings
\* and throws a TypeError on anything else.
Iterable(v) == v.kind \in {"array", "string"}

\* the records put before the existing ones
combinedLibrariesPrepended(existingLibraries, libraries) == libraries \o existingLibraries.items

combinedLibraries(existingLibraries, libraries) == existingLibraries.items \o libraries

(* ------------------------------- state ---------------------------------- *)

VARIABLES
    file,        \* the content of filePath
    file0,       \* the content of filePath before any call (history)
    lock,        \* the proper-lockfile lock of filePath: NoLock, or who took it
    proc,        \* proc[c]: the process call c runs in
    pc,          \* pc[c]: where call c is
    site,        \* site[c]: "before_lock" until lockfile.lock resolved, then "after_lock"
    libraries,   \* libraries[c]: call c's argument
    existingLibraries,  \* existingLibraries[c]: call c's local
    attempts,    \* attempts[c]: failed attempts of lockfile.lock
    thrown,      \* thrown[c]: what the try block threw, "none" if nothing
    result,      \* result[c]: how the call ended
    fileAtStart, \* fileAtStart[c]: the content of filePath when c was called (history)
    txResponse,  \* the transaction: its sender, its declared gas price, its receipt
    balanceOf,   \* the ledger: balanceOf[address][blockNumber]
    accounts,    \* getBalanceChanges' argument: the accounts
    options,     \* getBalanceChanges' argument: the BalanceChangeOptions
    overrides,   \* getBalanceChanges' argument: the ethers.Overrides
    txFees,      \* getBalanceChanges' local: what getTxFees returned
    balanceChanges,  \* what getBalanceChanges returned
    returned,    \* whether getBalanceChanges has returned
    fault,       \* what the receipt reader or the ledger reader fails on, if anything
    error,       \* the rejection getBalanceChanges ended with, "none" if none
    negated,     \* changeEtherBalances: this.__flags.negate
    expectedChanges,  \* changeEtherBalances' argument balanceChanges: the expected changes
    verdict,     \* what checkBalanceChanges' assert did: "none" before it, "pass", "fail"
    message,     \* the lines of the assertion's failure message: the index each names
    zkCompilerVersion,  \* filterSupportedOutputSelections' argument: the version
    outputSelection,    \* filterSupportedOutputSelections' argument: file -> contract -> outputs
    filteredOutputSelection,  \* what filterSupportedOutputSelections returned
    filtered     \* whether filterSupportedOutputSelections has returned

regVars == <<file, file0, lock, proc, pc, site, libraries, existingLibraries,
             attempts, thrown, result, fileAtStart>>

balVars == <<txResponse, balanceOf, accounts, options, overrides, txFees,
             balanceChanges, returned, fault, error, negated, expectedChanges,
             verdict, message>>

selVars == <<zkCompilerVersion, outputSelection, filteredOutputSelection, filtered>>

vars == <<regVars, balVars, selVars>>

NoLock == [proc |-> 0, call |-> 0]

Pending == "pending"

InitRegistry(files) ==
    /\ file \in files
    /\ file0 = file
    /\ lock = NoLock
    /\ proc \in {f \in [Call -> Call] : \A c \in Call : f[c] <= c}
    /\ pc = [c \in Call |-> "idle"]
    /\ site = [c \in Call |-> "before_lock"]
    /\ libraries = [c \in Call |-> <<>>]
    /\ existingLibraries = [c \in Call |-> Absent]
    /\ attempts = [c \in Call |-> 0]
    /\ thrown = [c \in Call |-> "none"]
    /\ result = [c \in Call |-> Pending]
    /\ fileAtStart = [c \in Call |-> Absent]

(* ------------------- getBalanceChanges: the data ------------------------ *)

\* highest block number of the ledger
MaxBlock == 2

\* longest `accounts` argument
MaxAccounts == 2

\* an optional value: <<>> for undefined or null, <<v>> for the value v
None == <<>>

Some(v) == <<v>>

Address == {1, 2}

\* Account | string: a signer object, or an address given as a string
Account ==
    {[kind |-> "signer", address |-> 1],
     [kind |-> "string", address |-> 2]}

\* the balances an address can have: the sender's and the recipient's of the
\* scenario (1000 to 950, 500 to 570)
Balances(a) == IF a = 1 THEN {950, 1000} ELSE {500, 570}

Ledgers == {l \in [Address -> [0 .. MaxBlock -> {500, 570, 950, 1000}]] :
               \A a \in Address : \A h \in 0 .. MaxBlock : l[a][h] \in Balances(a)}

Receipts ==
    [blockNumber : 1 .. MaxBlock, gasUsed : {2}, gasPrice : {None, Some(0), Some(10)}]

Responses == [from : Address, gasPrice : {Some(7)}, receipt : Receipts]

\* options?: BalanceChangeOptions. given: whether the argument is passed;
\* includeFee: the property's value, "undefined" when it is not set.
NoOptions == [given |-> FALSE, includeFee |-> "undefined"]

OptionsArgs == {NoOptions} \cup [given : {TRUE}, includeFee : {"undefined", "false", "true"}]

\* overrides?: ethers.Overrides. maxFeePerGas is None when it is not set.
NoOverrides == [given |-> FALSE, maxFeePerGas |-> None]

OverridesArgs == {NoOverrides} \cup [given : {TRUE}, maxFeePerGas : {None, Some(0), Some(3), Some(30)}]

NoResponse == [from |-> 1, gasPrice |-> Some(7),
               receipt |-> [blockNumber |-> 1, gasUsed |-> 2, gasPrice |-> None]]

InitBalanceFrom(responses, ledgers, accountArgs, optionArgs, overrideArgs) ==
    /\ txResponse \in responses
    /\ balanceOf \in ledgers
    /\ accounts \in accountArgs
    /\ options \in optionArgs
    /\ overrides \in overrideArgs
    /\ txFees = <<>>
    /\ balanceChanges = <<>>
    /\ returned = FALSE

InitBalance(called) ==
    IF called
    THEN InitBalanceFrom(Responses, Ledgers, SeqsUpTo(Account, MaxAccounts),
                         OptionsArgs, OverridesArgs)
    ELSE InitBalanceFrom({NoResponse}, {[a \in Address |-> [h \in 0 .. MaxBlock |-> 500]]},
                         {<<>>}, {NoOptions}, {NoOverrides})

\* what fails: nothing, txResponse.wait(), or the balance read of one address
\* at one block
NoFault == [kind |-> "none", address |-> 0, height |-> 0]

WaitFault == [kind |-> "wait", address |-> 0, height |-> 0]

Faults == {NoFault, WaitFault} \cup [kind : {"read"}, address : Address, height : 0 .. MaxBlock]

\* BigNumberish: the expected changes are numbers or decimal strings
ExpectedArgs ==
    {[repr |-> "number", value |-> 0],
     [repr |-> "number", value |-> 70],
     [repr |-> "string", value |-> 0 - 30]}

InitAssertion(faults) ==
    /\ fault \in faults
    /\ error = "none"
    /\ negated = FALSE
    /\ expectedChanges = <<>>
    /\ verdict = "none"
    /\ message = <<>>

(* ------------- filterSupportedOutputSelections: the data ---------------- *)

\* longest list of outputs of a contract
MaxOutputs == 2

\* a version string 'a.b.c', as version.split('.') gives it: three numerals,
\* each the sequence of its decimal digits
Versions ==
    {<<major, minor, patch>> :
        major \in {<<0>>, <<1>>, <<2>>},
        minor \in {<<2>>, <<3>>, <<4>>},
        patch \in {<<4>>, <<5>>, <<6>>, <<1, 0>>}}

\* a supported output, one more recent compilers add, and one never supported
Outputs == {"abi", "metadata", "evm.bytecode"}

\* CompilerOutputSelection: the outputs of every contract of every file
OutputSelections == [{"*"} -> [{"*", ""} -> SeqsUpTo(Outputs, MaxOutputs)]]

NoSelection == [f \in {"*"} |-> [c \in {"*", ""} |-> <<>>]]

InitSelection(called) ==
    /\ zkCompilerVersion \in (IF called THEN Versions ELSE {<<<<1>>, <<3>>, <<5>>>>})
    /\ outputSelection \in (IF called THEN OutputSelections ELSE {NoSelection})
    /\ filteredOutputSelection = NoSelection
    /\ filtered = FALSE

Init ==
    /\ InitRegistry(InitialFiles)
    /\ InitBalance(FALSE)
    /\ InitAssertion({NoFault})
    /\ InitSelection(FALSE)

\* fse.outputFileSync runs to completion inside its process: while a call is
\* between the open and the write of its outputFileSync, no other call of the
\* same process runs.
CanRun(c) == \A d \in Call \ {c} : proc[d] = proc[c] => pc[d] # "write"

\* writeLibrariesToFile(filePath, libraries) is called.
Start(c, libs) ==
    /\ pc[c] = "idle"
    /\ CanRun(c)
    /\ pc' = [pc EXCEPT ![c] = "exists"]
    /\ libraries' = [libraries EXCEPT ![c] = libs]
    /\ fileAtStart' = [fileAtStart EXCEPT ![c] = file]
    /\ UNCHANGED <<file, file0, lock, proc, site, existingLibraries, attempts, thrown, result>>
    /\ UNCHANGED <<balVars, selVars>>

\* getOrCreateLibraries: await fse.pathExists(filePath)
PathExists(c) ==
    /\ pc[c] = "exists"
    /\ CanRun(c)
    /\ pc' = [pc EXCEPT ![c] = IF file.kind = "absent" THEN "create" ELSE "read"]
    /\ UNCHANGED <<file, file0, lock, proc, site, libraries, existingLibraries,
                   attempts, thrown, result, fileAtStart>>
    /\ UNCHANGED <<balVars, selVars>>

\* getOrCreateLibraries: fse.outputFile(filePath, '[]'), the open with flag 'w'
\* that creates the file or truncates it.
OutputFileOpen(c) ==
    /\ pc[c] = "create"
    /\ CanRun(c)
    /\ file' = EmptyFile
    /\ pc' = [pc EXCEPT ![c] = "fill"]
    /\ UNCHANGED <<file0, lock, proc, site, libraries, existingLibraries,
                   attempts, thrown, result, fileAtStart>>
    /\ UNCHANGED <<balVars, selVars>>

\* getOrCreateLibraries: fse.outputFile(filePath, '[]'), the write of '[]'.
OutputFileWrite(c) ==
    /\ pc[c] = "fill"
    /\ CanRun(c)
    /\ file' = WriteAt0(file, Arr(<<>>))
    /\ pc' = [pc EXCEPT ![c] = "read"]
    /\ UNCHANGED <<file0, lock, proc, site, libraries, existingLibraries,
                   attempts, thrown, result, fileAtStart>>
    /\ UNCHANGED <<balVars, selVars>>

\* getOrCreateLibraries: return await fse.readJSON(filePath), and the
\* assignment to existingLibraries. A throw goes to the catch block, which
\* rethrows, and on to finally.
ReadJSON(c) ==
    /\ pc[c] = "read"
    /\ CanRun(c)
    /\ IF readJSONThrows(file)
       THEN /\ thrown' = [thrown EXCEPT ![c] = "SyntaxError"]
            /\ pc' = [pc EXCEPT ![c] = "finally"]
            /\ UNCHANGED existingLibraries
       ELSE /\ existingLibraries' = [existingLibraries EXCEPT ![c] = file]
            /\ pc' = [pc EXCEPT ![c] = IF site[c] = "before_lock" THEN "lock" ELSE "combine"]
            /\ UNCHANGED thrown
    /\ UNCHANGED <<file, file0, lock, proc, site, libraries, attempts, result, fileAtStart>>
    /\ UNCHANGED <<balVars, selVars>>

\* await lockfile.lock(filePath, { retries: { retries: 10, maxTimeout: 1000 } }):
\* one attempt. It takes the lock when nobody holds it; it fails otherwise, and
\* the failure after the last retry is thrown (ELOCKED).
Lock(c) ==
    /\ pc[c] = "lock"
    /\ CanRun(c)
    /\ IF lock = NoLock
       THEN /\ lock' = [proc |-> proc[c], call |-> c]
            /\ site' = [site EXCEPT ![c] = "after_lock"]
            /\ pc' = [pc EXCEPT ![c] = "exists"]
            /\ UNCHANGED <<attempts, thrown>>
       ELSE IF attempts[c] < Retries
       THEN /\ attempts' = [attempts EXCEPT ![c] = @ + 1]
            /\ UNCHANGED <<lock, site, pc, thrown>>
       ELSE /\ attempts' = [attempts EXCEPT ![c] = @ + 1]
            /\ thrown' = [thrown EXCEPT ![c] = "ELOCKED"]
            /\ pc' = [pc EXCEPT ![c] = "finally"]
            /\ UNCHANGED <<lock, site>>
    /\ UNCHANGED <<file, file0, proc, libraries, existingLibraries, result, fileAtStart>>
    /\ UNCHANGED <<balVars, selVars>>

\* const combinedLibraries = [...existingLibraries, ...libraries], and the open
\* of fse.outputFileSync(filePath, ...), which truncates the file. The spread
\* throws on a value that is not iterable; ioError is the open failing.
OutputFileSyncOpen(c, ioError) ==
    /\ pc[c] = "combine"
    /\ CanRun(c)
    /\ IF ~Iterable(existingLibraries[c])
       THEN /\ thrown' = [thrown EXCEPT ![c] = "TypeError"]
            /\ pc' = [pc EXCEPT ![c] = "finally"]
            /\ UNCHANGED file
       ELSE IF ioError
       THEN /\ thrown' = [thrown EXCEPT ![c] = "IOError"]
            /\ pc' = [pc EXCEPT ![c] = "finally"]
            /\ UNCHANGED file
       ELSE /\ file' = EmptyFile
            /\ pc' = [pc EXCEPT ![c] = "write"]
            /\ UNCHANGED thrown
    /\ UNCHANGED <<file0, lock, proc, site, libraries, existingLibraries,
                   attempts, result, fileAtStart>>
    /\ UNCHANGED <<balVars, selVars>>

\* fse.outputFileSync(filePath, JSON.stringify(combinedLibraries, null, 4)):
\* the write of the text.
OutputFileSyncWrite(c) ==
    /\ pc[c] = "write"
    /\ file' = WriteAt0(file, Arr(combinedLibraries(existingLibraries[c], libraries[c])))
    /\ pc' = [pc EXCEPT ![c] = "finally"]
    /\ UNCHANGED <<file0, lock, proc, site, libraries, existingLibraries,
                   attempts, thrown, result, fileAtStart>>
    /\ UNCHANGED <<balVars, selVars>>

\* the unlock at the end of the try block instead of in finally
UnlockInTry(c) ==
    /\ pc[c] = "finally"
    /\ CanRun(c)
    /\ IF thrown[c] # "none"
       THEN /\ UNCHANGED lock
            /\ result' = [result EXCEPT ![c] = "ZkSyncSolcPluginError"]
       ELSE IF lock # NoLock /\ lock.proc = proc[c]
       THEN /\ lock' = NoLock
            /\ result' = [result EXCEPT ![c] = "ok"]
       ELSE /\ UNCHANGED lock
            /\ result' = [result EXCEPT ![c] = "ENOTACQUIRED"]
    /\ pc' = [pc EXCEPT ![c] = "done"]
    /\ UNCHANGED <<file, file0, proc, site, libraries, existingLibraries,
                   attempts, thrown, fileAtStart>>
    /\ UNCHANGED <<balVars, selVars>>

\* finally { await lockfile.unlock(filePath) }, and the return. proper-lockfile
\* keeps the locks of a process in a table keyed by the file: unlock removes the
\* lock of the calling process and rejects with ENOTACQUIRED when that process
\* has none. A rejection in finally replaces what the catch block threw.
Unlock(c) ==
    /\ pc[c] = "finally"
    /\ CanRun(c)
    /\ IF lock # NoLock /\ lock.proc = proc[c]
       THEN /\ lock' = NoLock
            /\ result' = [result EXCEPT ![c] =
                  IF thrown[c] = "none" THEN "ok" ELSE "ZkSyncSolcPluginError"]
       ELSE /\ UNCHANGED lock
            /\ result' = [result EXCEPT ![c] = "ENOTACQUIRED"]
    /\ pc' = [pc EXCEPT ![c] = "done"]
    /\ UNCHANGED <<file, file0, proc, site, libraries, existingLibraries,
                   attempts, thrown, fileAtStart>>
    /\ UNCHANGED <<balVars, selVars>>

getOrCreateLibraries(c) ==
    \/ PathExists(c)
    \/ OutputFileOpen(c)
    \/ OutputFileWrite(c)
    \/ ReadJSON(c)

writeLibrariesToFile(c) ==
    \/ getOrCreateLibraries(c)
    \/ Lock(c)
    \/ \E ioError \in BOOLEAN : OutputFileSyncOpen(c, ioError)
    \/ OutputFileSyncWrite(c)
    \/ Unlock(c)

Next ==
    \E c \in Call :
        \/ \E libs \in SeqsUpTo(Record, MaxLibs) : Start(c, libs)
        \/ writeLibrariesToFile(c)

Spec == Init /\ [][Next]_vars

\* The calls made one after the other: a call starts when no other is running.
NextSeq ==
    \E c \in Call :
        \/ /\ \A d \in Call : pc[d] \in {"idle", "done"}
           /\ \E libs \in SeqsUpTo(Record, MaxLibs) : Start(c, libs)
        \/ writeLibrariesToFile(c)

SpecSeq == Init /\ [][NextSeq]_vars

(* --------------------------- getBalanceChanges -------------------------- *)

\* getAddressOf(account): the address of the signer, or the string itself
getAddressOf(account) == account.address

\* getBalances(accounts, blockNumber): the balance of every account at the block
getBalances(accts, ledger, blockNumber) ==
    [i \in 1 .. Len(accts) |-> ledger[getAddressOf(accts[i])][blockNumber]]

\* a JavaScript number or bigint in a condition: 0 and 0n are falsy, as
\* undefined is
Truthy(maybe) == maybe # None /\ maybe # Some(0)

\* a ?? b
Coalesce(a, b) == IF a # None THEN a ELSE b

\* the operands of ?? exchanged: the declared price before the receipt's
gasPriceDeclaredFirst(tx, ovr) ==
    IF Truthy(ovr.maxFeePerGas)
    THEN ovr.maxFeePerGas[1]
    ELSE Coalesce(tx.gasPrice, tx.receipt.gasPrice)[1]

\* overrides?.maxFeePerGas ? overrides?.maxFeePerGas
\*                         : txReceipt.gasPrice ?? txResponse.gasPrice
gasPrice(tx, ovr) ==
    IF Truthy(ovr.maxFeePerGas)
    THEN ovr.maxFeePerGas[1]
    ELSE Coalesce(tx.receipt.gasPrice, tx.gasPrice)[1]

\* the fee added back only when includeFee is false
getTxFeesWhenFalse(accts, tx, opts, ovr) ==
    [i \in 1 .. Len(accts) |->
        IF opts.includeFee = "false" /\ getAddressOf(accts[i]) = tx.from
        THEN gasPrice(tx, ovr) * tx.receipt.gasUsed
        ELSE 0]

\* getTxFees: for every account, the fee when options?.includeFee !== true and
\* the account is txResponse.from, 0n otherwise
getTxFees(accts, tx, opts, ovr) ==
    [i \in 1 .. Len(accts) |->
        IF opts.includeFee # "true" /\ getAddressOf(accts[i]) = tx.from
        THEN gasPrice(tx, ovr) * tx.receipt.gasUsed
        ELSE 0]

\* the balances of the wrong blocks: the block before against the block
changesBeforeMinusAfter(after, fees, before) ==
    [i \in 1 .. Len(after) |-> before[i] + fees[i] - after[i]]

\* balancesAfter.map((balance, ind) => balance + txFees[ind] - balancesBefore[ind])
changes(after, fees, before) ==
    [i \in 1 .. Len(after) |-> after[i] + fees[i] - before[i]]

\* getBalances rejects when the read of one of its accounts at the block fails
getBalancesFails(accts, blockNumber, flt) ==
    /\ flt.kind = "read"
    /\ flt.height = blockNumber
    /\ \E i \in 1 .. Len(accts) : getAddressOf(accts[i]) = flt.address

\* getBalances with a failed read defaulting to 0
getBalancesOrZero(accts, ledger, blockNumber, flt) ==
    [i \in 1 .. Len(accts) |->
        IF flt.kind = "read" /\ flt.height = blockNumber /\ getAddressOf(accts[i]) = flt.address
        THEN 0
        ELSE ledger[getAddressOf(accts[i])][blockNumber]]

\* getBalanceChanges with the failed reads caught and defaulted
getBalanceChangesDefaulting ==
    /\ ~returned
    /\ error = "none"
    /\ LET txReceipt == txResponse.receipt
           txBlockNumber == txReceipt.blockNumber
           balancesAfter == getBalancesOrZero(accounts, balanceOf, txBlockNumber, fault)
           balancesBefore == getBalancesOrZero(accounts, balanceOf, txBlockNumber - 1, fault)
           fees == getTxFees(accounts, txResponse, options, overrides)
       IN  IF fault.kind = "wait"
           THEN /\ error' = "wait"
                /\ UNCHANGED <<txFees, balanceChanges, returned>>
           ELSE /\ txFees' = fees
                /\ balanceChanges' = changes(balancesAfter, fees, balancesBefore)
                /\ returned' = TRUE
                /\ UNCHANGED error
    /\ UNCHANGED <<txResponse, balanceOf, accounts, options, overrides, fault,
                   negated, expectedChanges, verdict, message>>
    /\ UNCHANGED <<regVars, selVars>>

\* getBalanceChanges(transaction, accounts, options, overrides), from the call
\* to the return, or to the first await that rejects: txResponse.wait(), then
\* getBalances at the block, then getBalances at the block before.
getBalanceChanges ==
    /\ ~returned
    /\ error = "none"
    /\ LET txReceipt == txResponse.receipt
           txBlockNumber == txReceipt.blockNumber
           balancesAfter == getBalances(accounts, balanceOf, txBlockNumber)
           balancesBefore == getBalances(accounts, balanceOf, txBlockNumber - 1)
           fees == getTxFees(accounts, txResponse, options, overrides)
       IN  IF fault.kind = "wait"
           THEN /\ error' = "wait"
                /\ UNCHANGED <<txFees, balanceChanges, returned>>
           ELSE IF \/ getBalancesFails(accounts, txBlockNumber, fault)
                   \/ getBalancesFails(accounts, txBlockNumber - 1, fault)
           THEN /\ error' = "read"
                /\ UNCHANGED <<txFees, balanceChanges, returned>>
           ELSE /\ txFees' = fees
                /\ balanceChanges' = changes(balancesAfter, fees, balancesBefore)
                /\ returned' = TRUE
                /\ UNCHANGED error
    /\ UNCHANGED <<txResponse, balanceOf, accounts, options, overrides, fault,
                   negated, expectedChanges, verdict, message>>
    /\ UNCHANGED <<regVars, selVars>>

(* ------------------------- changeEtherBalances -------------------------- *)

\* toBigInt(value): the integer a number or a decimal string stands for
toBigInt(x) == x.value

\* some instead of every
someEqual(actualChanges, expected) ==
    \E i \in 1 .. Len(actualChanges) : actualChanges[i] = toBigInt(expected[i])

\* actualChanges.every((change, ind) => change === toBigInt(balanceChanges[ind]))
everyEqual(actualChanges, expected) ==
    \A i \in 1 .. Len(actualChanges) : actualChanges[i] = toBigInt(expected[i])

RECURSIVE IndicesWhere(_, _, _, _)
\* the indices 1 .. k at which actual and expected are equal (equal = TRUE) or
\* differ (equal = FALSE), in order: one line of the message each
IndicesWhere(actualChanges, expected, equal, k) ==
    IF k = 0
    THEN <<>>
    ELSE IndicesWhere(actualChanges, expected, equal, k - 1)
            \o (IF (actualChanges[k] = toBigInt(expected[k])) = equal THEN <<k>> ELSE <<>>)

\* buildAssert(negated, ...) applied to the condition: the assertion fails when
\* it is not negated and the condition is false, or negated and the condition true
assertFails(neg, condition) == (~neg /\ ~condition) \/ (neg /\ condition)

\* checkBalanceChanges([actualChanges, accountAddresses]), run by .then once
\* getBalanceChanges has resolved.
checkBalanceChanges(neg, expected) ==
    /\ returned
    /\ verdict = "none"
    /\ Len(expected) = Len(accounts)
    /\ negated' = neg
    /\ expectedChanges' = expected
    /\ LET condition == everyEqual(balanceChanges, expected)
       IN  IF assertFails(neg, condition)
           THEN /\ verdict' = "fail"
                /\ message' = IndicesWhere(balanceChanges, expected, neg, Len(balanceChanges))
           ELSE /\ verdict' = "pass"
                /\ UNCHANGED message
    /\ UNCHANGED <<txResponse, balanceOf, accounts, options, overrides, txFees,
                   balanceChanges, returned, fault, error>>
    /\ UNCHANGED <<regVars, selVars>>

InitBal ==
    /\ InitRegistry({Absent})
    /\ proc = [c \in Call |-> c]
    /\ InitBalance(TRUE)
    /\ InitAssertion({NoFault})
    /\ InitSelection(FALSE)

NextBal == getBalanceChanges

SpecBal == InitBal /\ [][NextBal]_vars

\* expect(tx).to.changeEtherBalances(accounts, balanceChanges), negated or not,
\* with the readers failing or not: the first address the sender, default
\* options, no overrides, a receipt with a gas price.
InitMatcher ==
    /\ InitRegistry({Absent})
    /\ proc = [c \in Call |-> c]
    /\ InitBalanceFrom({r \in Responses : r.from = 1 /\ r.receipt.gasPrice = Some(10)},
                       Ledgers, SeqsUpTo(Account, MaxAccounts), {NoOptions}, {NoOverrides})
    /\ InitAssertion(Faults)
    /\ InitSelection(FALSE)

NextMatcher ==
    \/ getBalanceChanges
    \/ \E neg \in BOOLEAN :
          \E expected \in SeqsUpTo(ExpectedArgs, MaxAccounts) :
              checkBalanceChanges(neg, expected)

SpecMatcher == InitMatcher /\ [][NextMatcher]_vars

(* -------------------- filterSupportedOutputSelections ------------------- *)

RECURSIVE parseInt(_)
\* parseInt(numeral, 10)
parseInt(digits) ==
    IF Len(digits) = 0
    THEN 0
    ELSE 10 * parseInt(SubSeq(digits, 1, Len(digits) - 1)) + digits[Len(digits)]

\* getVersionComponents(version): the three numerals of the split, parsed
getVersionComponents(version) ==
    <<parseInt(version[1]), parseInt(version[2]), parseInt(version[3])>>

\* ZKSOLC_COMPILERS_SELECTOR_MAP['1.3.5']
SelectorMap135 ==
    {"abi", "evm.methodIdentifiers", "storageLayout", "irOptimized", "evm.legacyAssembly", "ast"}

\* the switch: the 1.3.5 table when versionComponents[0] <= 1 &&
\* versionComponents[1] <= 3 && versionComponents[2] <= 5, and the table with
\* 'metadata', 'userdoc' and 'devdoc' otherwise
supportedOutputSelections(versionComponents) ==
    IF versionComponents[1] <= 1 /\ versionComponents[2] <= 3 /\ versionComponents[3] <= 5
    THEN SelectorMap135
    ELSE SelectorMap135 \cup {"metadata", "userdoc", "devdoc"}

\* outputs.filter((output) => supportedOutputSelections.includes(output))
filterOutputs(outputs, supported) == SelectSeq(outputs, LAMBDA output : output \in supported)

filterSupportedOutputSelections(selection, version) ==
    LET supported == supportedOutputSelections(getVersionComponents(version))
    IN  [fileName \in DOMAIN selection |->
            [contract \in DOMAIN selection[fileName] |->
                filterOutputs(selection[fileName][contract], supported)]]

\* filterSupportedOutputSelections(outputSelection, zkCompilerVersion) is called
\* and returns.
FilterSupportedOutputSelections ==
    /\ ~filtered
    /\ filteredOutputSelection' = filterSupportedOutputSelections(outputSelection, zkCompilerVersion)
    /\ filtered' = TRUE
    /\ UNCHANGED <<zkCompilerVersion, outputSelection>>
    /\ UNCHANGED <<regVars, balVars>>

InitSel ==
    /\ InitRegistry({Absent})
    /\ proc = [c \in Call |-> c]
    /\ InitBalance(FALSE)
    /\ InitAssertion({NoFault})
    /\ InitSelection(TRUE)

NextSel == FilterSupportedOutputSelections

SpecSel == InitSel /\ [][NextSel]_vars

(* ------------------ writeLibrariesToFile: the claims -------------------- *)

\* every call runs in a process of its own
DistinctProcs == \A c, d \in Call : c # d => proc[c] # proc[d]

AllReturnedOk == \A c \in Call : pc[c] = "done" /\ result[c] = "ok"

\* the orders in which the calls can have taken effect
Orders == {o \in [1 .. NumCalls -> Call] : \A i, j \in 1 .. NumCalls : i # j => o[i] # o[j]}

RECURSIVE LibrariesInOrder(_, _)
LibrariesInOrder(o, k) ==
    IF k = 0 THEN <<>> ELSE LibrariesInOrder(o, k - 1) \o libraries[o[k]]

\* the records of a registry file: none when there is no file yet
RecordsOf(f) == IF f.kind = "array" THEN f.items ELSE <<>>

ValidRegistry(f) == f.kind \in {"absent", "array"}

\* C1: No lost records under concurrency. When N calls, each in its own
\* process, have all returned successfully on a file that was absent or held
\* the array E, the file holds E followed by the records of the calls in some
\* order of the calls.
C1_NoLostRecords ==
    (ValidRegistry(file0) /\ DistinctProcs /\ AllReturnedOk)
        => \E o \in Orders : file = Arr(RecordsOf(file0) \o LibrariesInOrder(o, NumCalls))

\* C2: Readers never see partial JSON. In every reachable state, also while
\* a call is inside its write, the content of a registry file that held a
\* valid array is a valid JSON array.
C2_ReadersSeeArray == file0.kind = "array" => file.kind = "array"

Returns(c) == pc[c] = "finally" /\ pc'[c] = "done"

\* C3: Append accumulation. A successful call made on a file holding the
\* sequence E (or on no file, E empty), with no other call running, leaves
\* the file holding E followed by its records, in order, duplicates kept.
C3_AppendAccumulation ==
    [][\A c \in Call :
          (Returns(c) /\ result'[c] = "ok" /\ ValidRegistry(fileAtStart[c]))
              => file' = Arr(RecordsOf(fileAtStart[c]) \o libraries[c])]_vars

\* append([A]) then append([B]) on an empty registry has left [A, B]
C3_Witness ==
    \E c, d \in Call :
        /\ c # d
        /\ pc[c] = "done" /\ result[c] = "ok" /\ libraries[c] = <<1>>
        /\ pc[d] = "done" /\ result[d] = "ok" /\ libraries[d] = <<2>>
        /\ fileAtStart[c] = Arr(<<>>)
        /\ fileAtStart[d] = Arr(<<1>>)
        /\ file = Arr(<<1, 2>>)

\* C4: Guaranteed lock release. A call that has returned, normally or with an
\* error, does not hold the lock, and once every call has returned the lock is
\* free for the next one.
C4_LockReleased ==
    /\ \A c \in Call : pc[c] = "done" => lock.call # c
    /\ (\A c \in Call : pc[c] = "done") => lock = NoLock

\* a call that took the lock, then threw, has returned
C4_Witness ==
    \E c \in Call : pc[c] = "done" /\ site[c] = "after_lock" /\ thrown[c] # "none"

\* C5: Corrupt input detection. A call made, alone, on a file whose content
\* is not a valid JSON array fails, leaves the content as it was and leaves the
\* lock free.
C5_CorruptDetected ==
    \A c \in Call :
        (/\ pc[c] = "done"
         /\ \A d \in Call \ {c} : pc[d] = "idle"
         /\ fileAtStart[c] \in CorruptFiles)
            => /\ result[c] # "ok"
               /\ file = fileAtStart[c]
               /\ lock = NoLock

\* C6: Bounded lock acquisition. A call, in a process of its own, that meets
\* contention gives up after the 10 retries without having touched the file
\* under the lock, and the failure its caller receives is the one of the lock
\* (the plugin error that wraps it), no other error.
C6_LockTimeoutReported ==
    \A c \in Call :
        /\ attempts[c] <= Retries + 1
        /\ (DistinctProcs /\ pc[c] = "done" /\ thrown[c] = "ELOCKED")
              => /\ site[c] = "before_lock"
                 /\ result[c] = "ZkSyncSolcPluginError"

InGetOrCreateLibraries(c) == pc[c] \in {"exists", "create", "fill", "read"}

\* C7: ensureExists only ever turns an absent file into an empty array. No
\* step of getOrCreateLibraries changes the content of a file that exists and
\* holds records, other calls running in other processes or not.
C7_EnsureExistsKeepsContent ==
    [][\A c \in Call :
          (/\ DistinctProcs
           /\ InGetOrCreateLibraries(c)
           /\ pc'[c] # pc[c]
           /\ file.kind = "array"
           /\ file.items # <<>>)
              => file' = file]_vars

\* call c is between its successful lockfile.lock and the end of its unlock
InCriticalSection(c) == site[c] = "after_lock" /\ pc[c] # "done"

\* call c is at its re-read, its merge or its write
AtReadMergeWrite(c) ==
    site[c] = "after_lock" /\ pc[c] \in {"exists", "create", "fill", "read", "combine", "write"}

\* C13: Mutual exclusion of the critical section. At most one call is
\* between its lock acquisition and its lock release, and a call that is at
\* its re-read, merge or write holds the lock at that moment.
C13_MutualExclusion ==
    /\ Cardinality({c \in Call : InCriticalSection(c)}) <= 1
    /\ \A c \in Call : AtReadMergeWrite(c) => lock.call = c

\* C14: Release only by the holder. A call invokes lockfile.unlock only
\* when its own lockfile.lock succeeded before, so it never releases a lock
\* another call took.
C14_ReleaseOnlyByHolder ==
    [][\A c \in Call :
          Returns(c) => /\ site[c] = "after_lock"
                        /\ (lock' # lock => lock.call = c)]_vars

(* -------------------- getBalanceChanges: the claims --------------------- *)

IsSender(i) == accounts[i].address = txResponse.from

After(i) == balanceOf[accounts[i].address][txResponse.receipt.blockNumber]

Before(i) == balanceOf[accounts[i].address][txResponse.receipt.blockNumber - 1]

\* C8: Delta formula. The result has one element per account, in the order
\* of the accounts, and the i-th is the balance of account i at block B, minus
\* its balance at block B - 1, plus its fee contribution: a signed integer.
C8_DeltaFormula ==
    returned =>
        /\ Len(balanceChanges) = Len(accounts)
        /\ \A i \in 1 .. Len(accounts) :
              /\ balanceChanges[i] = After(i) - Before(i) + txFees[i]
              /\ balanceChanges[i] \in Int

\* two accounts, the second one's delta negative
C8_Witness ==
    /\ returned
    /\ Len(accounts) = 2
    /\ accounts[1].address # accounts[2].address
    /\ balanceChanges[1] > 0
    /\ balanceChanges[2] < 0

\* the price of C10, as the code computes it
PriceUsed == gasPrice(txResponse, overrides)

\* C9: Fee attribution. The fee contribution of account i is gasUsed *
\* gasPrice when the account is the sender and includeFee is not true (unset,
\* undefined or false), and 0 for every other account and for every account
\* when includeFee is true.
C9_FeeAttribution ==
    returned =>
        \A i \in 1 .. Len(accounts) :
            /\ (IsSender(i) /\ options.includeFee # "true")
                  => txFees[i] = txResponse.receipt.gasUsed * PriceUsed
            /\ (~IsSender(i) \/ options.includeFee = "true") => txFees[i] = 0

\* the sender going from 1000 to 950 with a fee of 20 and no options gets -30,
\* and the recipient going from 500 to 570 gets 70
C9_Witness ==
    /\ returned
    /\ ~options.given
    /\ Len(accounts) = 2
    /\ IsSender(1) /\ Before(1) = 1000 /\ After(1) = 950
    /\ txFees[1] = 20 /\ balanceChanges[1] = 0 - 30
    /\ ~IsSender(2) /\ Before(2) = 500 /\ After(2) = 570
    /\ txFees[2] = 0 /\ balanceChanges[2] = 70

\* the price the claim names: the override when it is supplied, else the
\* receipt's price when it has one, else the transaction's declared price
PriceClaimed ==
    IF overrides.given /\ overrides.maxFeePerGas # None
    THEN overrides.maxFeePerGas[1]
    ELSE IF txResponse.receipt.gasPrice # None
    THEN txResponse.receipt.gasPrice[1]
    ELSE txResponse.gasPrice[1]

\* C10: Gas price precedence. The sender's fee is the receipt's gasUsed
\* times feeOverride.maxFeePerGas whenever that is supplied, zero included,
\* else times the receipt's gas price when it has one, else times the
\* transaction's declared gas price.
C10_GasPricePrecedence ==
    returned =>
        \A i \in 1 .. Len(accounts) :
            (IsSender(i) /\ options.includeFee # "true")
                => txFees[i] = txResponse.receipt.gasUsed * PriceClaimed

\* the value account i sent, when its balance went down by that value and by
\* gasUsed times the receipt's effective gas price
ValueSent(i) ==
    Before(i) - After(i) - txResponse.receipt.gasUsed * txResponse.receipt.gasPrice[1]

\* account i is the sender and strictly a payer: nothing came in
StrictPayer(i) ==
    /\ IsSender(i)
    /\ txResponse.receipt.gasPrice # None
    /\ ValueSent(i) >= 0

\* C11 as stated: Non-positive sender delta. Whatever includeFee and
\* feeOverride are, the delta of a sender that is strictly a payer is <= 0.
C11_SenderDeltaNonPositive ==
    returned =>
        \A i \in 1 .. Len(accounts) : StrictPayer(i) => balanceChanges[i] <= 0

\* the override, when one is supplied, is not above the receipt's effective price
OverrideWithinPrice ==
    overrides.maxFeePerGas # None
        => overrides.maxFeePerGas[1] <= txResponse.receipt.gasPrice[1]

\* C11 as amended: Non-positive sender delta. Whatever includeFee is, and
\* for every feeOverride whose maxFeePerGas, if supplied, is not above the
\* receipt's effective gas price, the delta of a sender that is strictly a
\* payer is <= 0.
C11_SenderDeltaNonPositiveAmended ==
    returned =>
        \A i \in 1 .. Len(accounts) :
            (StrictPayer(i) /\ OverrideWithinPrice) => balanceChanges[i] <= 0

\* a strict payer with a supplied override below the price and the fee added
\* back: 950 - 1000 + 2 * 3
C11_Witness ==
    /\ returned
    /\ \E i \in 1 .. Len(accounts) :
          /\ StrictPayer(i)
          /\ overrides.maxFeePerGas = Some(3)
          /\ txResponse.receipt.gasPrice = Some(10)
          /\ options.includeFee # "true"
          /\ balanceChanges[i] = 0 - 44

\* the fault makes one of the awaits of getBalanceChanges reject
FaultHits ==
    \/ fault.kind = "wait"
    \/ getBalancesFails(accounts, txResponse.receipt.blockNumber, fault)
    \/ getBalancesFails(accounts, txResponse.receipt.blockNumber - 1, fault)

\* C12: All-or-nothing result. When the receipt wait fails, or the balance
\* read of one of the accounts at block B or B - 1 fails, getBalanceChanges
\* ends with that error and returns no deltas: whatever it returns, it returns
\* after every read succeeded, and an error leaves no deltas behind.
C12_AllOrNothing ==
    /\ returned => (~FaultHits /\ error = "none")
    /\ error # "none" =>
          /\ FaultHits
          /\ ~returned
          /\ balanceChanges = <<>>
          /\ verdict = "none"
          /\ error = (IF fault.kind = "wait" THEN "wait" ELSE "read")

\* the read of the second of two accounts at block B - 1 failed
C12_Witness ==
    /\ error = "read"
    /\ Len(accounts) = 2
    /\ fault.height = txResponse.receipt.blockNumber - 1
    /\ fault.address = accounts[2].address
    /\ fault.address # accounts[1].address

Matches(i) == balanceChanges[i] = expectedChanges[i].value

\* C15: changeEtherBalances verdict. With as many expected changes as
\* accounts, the assertion that is not negated succeeds exactly when every
\* delta equals its expected change, the negated one exactly when at least one
\* differs, and the message of a failure names exactly the indices that
\* mismatch (not negated) or match (negated).
C15_Verdict ==
    verdict # "none" =>
        /\ ~negated => (verdict = "pass" <=> \A i \in 1 .. Len(accounts) : Matches(i))
        /\ negated => (verdict = "pass" <=> \E i \in 1 .. Len(accounts) : ~Matches(i))
        /\ verdict = "fail" =>
              /\ \A k \in 1 .. Len(message) : message[k] \in 1 .. Len(accounts)
              /\ \A i \in 1 .. Len(accounts) :
                    (\E k \in 1 .. Len(message) : message[k] = i)
                        <=> (IF negated THEN Matches(i) ELSE ~Matches(i))

\* of two accounts the first matches and the second does not: the assertion
\* fails and names the second
C15_Witness ==
    /\ verdict = "fail"
    /\ ~negated
    /\ Len(accounts) = 2
    /\ Matches(1)
    /\ ~Matches(2)
    /\ message = <<2>>

(* -------------- filterSupportedOutputSelections: the claims ------------- *)

\* a <= b in semantic-version order: major, then minor, then patch
SemverLE(a, b) ==
    \/ a[1] < b[1]
    \/ a[1] = b[1] /\ a[2] < b[2]
    \/ a[1] = b[1] /\ a[2] = b[2] /\ a[3] <= b[3]

\* what the claim allows for a version
AllowedOutputs(version) ==
    IF SemverLE(getVersionComponents(version), <<1, 3, 5>>)
    THEN SelectorMap135
    ELSE SelectorMap135 \cup {"metadata", "userdoc", "devdoc"}

\* C16: Output-selection version threshold. The outputs of every contract
\* are restricted to the 1.3.5 table exactly when the version is <= 1.3.5 in
\* semantic-version order, 'metadata', 'userdoc' and 'devdoc' being allowed
\* too exactly when it is greater; the result has the files and contracts of
\* the input.
C16_VersionThreshold ==
    filtered =>
        /\ DOMAIN filteredOutputSelection = DOMAIN outputSelection
        /\ \A fileName \in DOMAIN outputSelection :
              /\ DOMAIN filteredOutputSelection[fileName] = DOMAIN outputSelection[fileName]
              /\ \A contract \in DOMAIN outputSelection[fileName] :
                    filteredOutputSelection[fileName][contract] =
                        SelectSeq(outputSelection[fileName][contract],
                                  LAMBDA output : output \in AllowedOutputs(zkCompilerVersion))

TypeOK ==
    /\ file.kind \in {"absent", "empty", "invalid", "array", "string", "number", "object", "null"}
    /\ pc \in [Call -> {"idle", "exists", "create", "fill", "read", "lock",
                        "combine", "write", "finally", "done"}]
    /\ \A c \in Call : attempts[c] \in 0 .. Retries + 1
    /\ result \in [Call -> {Pending, "ok", "ZkSyncSolcPluginError", "ENOTACQUIRED"}]
====
